---- MODULE Spec2Model ----
(***************************************************************************)
(* Model of src/custom_functions/expression_functions.rs: the built-in     *)
(* function library of the expression evaluator.  Every function is pure;  *)
(* a call is one step that records the function, its arguments and the     *)
(* outcome (Ok value, Err error, or a panic).                              *)
(***************************************************************************)
EXTENDS Integers, Sequences, FiniteSets, TLC

VARIABLES fn, args, result, overflow_checks

vars == <<fn, args, result, overflow_checks>>

(***************************************************************************)
(* Bounds of the model.                                                    *)
(***************************************************************************)
\* Width in bits of the modelled machine integer (i64 and usize share it).
IntBits == 4
\* Float inputs are the rationals n/d with |n| <= FloatMax and d in 1..2.
FloatMax == 2
\* Timestamps are drawn from the years BaseYear .. BaseYear + YearSpan.
YearSpan == 1

(***************************************************************************)
(* Value: the tagged union Empty / Int / Float / Boolean / String.         *)
(* One record shape for all variants: n is the Int, the Boolean (0/1) or   *)
(* the numerator of the Float, d the denominator of the Float, s the       *)
(* bytes of the String.                                                    *)
(***************************************************************************)
Empty == [t |-> "Empty", n |-> 0, d |-> 1, s |-> <<>>]

Int_(i) == [t |-> "Int", n |-> i, d |-> 1, s |-> <<>>]

Boolean(b) == [t |-> "Boolean", n |-> IF b THEN 1 ELSE 0, d |-> 1, s |-> <<>>]

String(s) == [t |-> "String", n |-> 0, d |-> 1, s |-> s]

RECURSIVE Gcd(_, _)
Gcd(a, b) == IF b = 0 THEN a ELSE Gcd(b, a % b)

Abs(x) == IF x < 0 THEN -x ELSE x

\* A Float is the rational num/den in lowest terms with a positive denominator.
Float(num, den) ==
    LET sg == IF den < 0 THEN -1 ELSE 1
        g  == Gcd(Abs(num), Abs(den))
    IN  [t |-> "Float", n |-> (sg * num) \div g, d |-> (sg * den) \div g, s |-> <<>>]

(***************************************************************************)
(* Result<Value, Error>, plus the panic a call can end in.                 *)
(***************************************************************************)
Ok(v) == [tag |-> "Ok", val |-> v, err |-> "", msg |-> <<>>]

Err(e, m) == [tag |-> "Err", val |-> Empty, err |-> e, msg |-> m]

Panic == [tag |-> "Panic", val |-> Empty, err |-> "", msg |-> <<>>]

NoCall == [tag |-> "None", val |-> Empty, err |-> "", msg |-> <<>>]

(***************************************************************************)
(* Machine integers.                                                       *)
(***************************************************************************)
Pow2(k) == IF k = 0 THEN 1 ELSE 2 ^ k

MinInt == -Pow2(IntBits - 1)

MaxInt == Pow2(IntBits - 1) - 1

\* Two's complement wrap of a mathematical integer into the signed range.
WrapInt(x) == ((x - MinInt) % Pow2(IntBits)) + MinInt

\* `x as usize`: reinterpretation of the signed integer as unsigned.
AsUsize(x) == x % Pow2(IntBits)

\* Rust's `/` on integers truncates toward zero.
TruncDiv(a, b) ==
    LET q == Abs(a) \div Abs(b)
    IN  IF (a < 0) = (b < 0) THEN q ELSE -q

(***************************************************************************)
(* Projections of Value used by the library.                               *)
(***************************************************************************)
is_empty(v) == v.t = "Empty"

\* Some(float), None, or an error: [ok, some, v].
as_float_or_none(v) ==
    CASE v.t = "Float" -> [ok |-> TRUE, some |-> TRUE, v |-> v]
      [] v.t = "Int"   -> [ok |-> TRUE, some |-> TRUE, v |-> Float(v.n, 1)]
      [] v.t = "Empty" -> [ok |-> TRUE, some |-> FALSE, v |-> Float(0, 1)]
      [] OTHER         -> [ok |-> FALSE, some |-> FALSE, v |-> Float(0, 1)]

as_boolean_or_none(v) ==
    CASE v.t = "Boolean" -> [ok |-> TRUE, some |-> TRUE, b |-> v.n = 1]
      [] v.t = "Empty"   -> [ok |-> TRUE, some |-> FALSE, b |-> FALSE]
      [] OTHER           -> [ok |-> FALSE, some |-> FALSE, b |-> FALSE]

as_int(v) ==
    IF v.t = "Int" THEN [ok |-> TRUE, i |-> v.n] ELSE [ok |-> FALSE, i |-> 0]

\* Float comparisons and negation on the rational representation.
FGt(a, b) == a.n * b.d > b.n * a.d

FLt(a, b) == a.n * b.d < b.n * a.d

FNeg(a) == Float(-a.n, a.d)

(***************************************************************************)
(* negate, abs                                                             *)
(***************************************************************************)
\* `-v` / `v.abs()` on the minimum integer overflow: a panic when the build
\* checks overflow, the wrapped value otherwise.
NegInt(i, checks) ==
    IF -i > MaxInt THEN (IF checks THEN Panic ELSE Ok(Int_(WrapInt(-i))))
    ELSE Ok(Int_(-i))

negate(v, checks) ==
    CASE v.t = "Empty"   -> Ok(Empty)
      [] v.t = "Int"     -> NegInt(v.n, checks)
      [] v.t = "Float"   -> Ok(FNeg(v))
      [] v.t = "Boolean" -> Ok(Boolean(v.n = 0))
      [] OTHER           -> Err("CustomError", v.s)

abs(v, checks) ==
    CASE v.t = "Float" -> Ok(Float(Abs(v.n), v.d))
      [] v.t = "Int"   -> IF v.n < 0 THEN NegInt(v.n, checks) ELSE Ok(v)
      [] v.t = "Empty" -> Ok(Empty)
      [] OTHER         -> Err("InvalidArgumentType", <<>>)

(***************************************************************************)
(* clip_value_to_range, fallback_with_range_clipping                       *)
(***************************************************************************)
clip_value_to_range(value, constant) ==
    LET vf == as_float_or_none(value)
        cf == as_float_or_none(constant)
    IN  IF ~vf.ok \/ ~cf.ok THEN Err("ExpectedFloat", <<>>)
        ELSE LET v == vf.v
                 c == cf.v
             IN  IF FGt(v, c) THEN Ok(c)
                 ELSE IF FLt(v, FNeg(c)) THEN Ok(FNeg(c))
                 ELSE Ok(v)

\* The same fallback on both branches: empty_value also for an Empty secondary.
fallback_symmetric(should_use_primary, ps, temp, constant, empty_value) ==
    LET b == as_boolean_or_none(should_use_primary)
    IN  IF ~b.ok THEN Err("ExpectedBoolean", <<>>)
        ELSE IF b.b
             THEN IF ~is_empty(ps) THEN clip_value_to_range(ps, constant)
                  ELSE Ok(empty_value)
             ELSE IF ~is_empty(temp) THEN clip_value_to_range(temp, constant)
                  ELSE Ok(empty_value)

fallback_with_range_clipping(should_use_primary, ps, temp, constant, empty_value) ==
    LET b == as_boolean_or_none(should_use_primary)
    IN  IF ~b.ok THEN Err("ExpectedBoolean", <<>>)
        ELSE IF b.b
             THEN IF ~is_empty(ps) THEN clip_value_to_range(ps, constant)
                  ELSE Ok(empty_value)
             ELSE IF ~is_empty(temp) THEN clip_value_to_range(temp, constant)
                  ELSE Ok(Float(0, 1))

(***************************************************************************)
(* safe_divide                                                             *)
(***************************************************************************)
\* Float division; the divisor is non-zero where this is used.
FDiv(a, b) == Float(a.n * b.d, a.d * b.n)

\* i64 `/`: the quotient MIN / -1 does not fit and panics in every build.
IntDiv(a, b) ==
    IF TruncDiv(a, b) > MaxInt THEN Panic ELSE Ok(Int_(TruncDiv(a, b)))

safe_divide(left, right) ==
    CASE left.t = "Float" /\ right.t = "Float" ->
            IF right.n = 0 THEN Ok(Empty) ELSE Ok(FDiv(left, right))
      [] left.t = "Int" /\ right.t = "Int" ->
            IF right.n = 0 THEN Ok(Empty) ELSE IntDiv(left.n, right.n)
      [] left.t = "Float" /\ right.t = "Int" ->
            IF right.n = 0 THEN Ok(Empty) ELSE Ok(FDiv(left, Float(right.n, 1)))
      [] left.t = "Int" /\ right.t = "Float" ->
            IF right.n = 0 THEN Ok(Empty) ELSE Ok(FDiv(Float(left.n, 1), right))
      [] right.t = "Empty" -> Ok(Empty)
      [] left.t = "Empty" -> Ok(Empty)
      [] OTHER -> Err("InvalidArgumentType", <<>>)

(***************************************************************************)
(* substring                                                               *)
(* A String is its sequence of UTF-8 bytes; a byte named "x.." is the      *)
(* second byte of a two-byte character.                                    *)
(***************************************************************************)
IsContinuation(b) == b \in {"xA9"}

\* str::is_char_boundary: index 0, the length, or a byte that starts a character.
is_char_boundary(m, i) == i = 0 \/ i = Len(m) \/ (i < Len(m) /\ ~IsContinuation(m[i + 1]))

\* &message[a..b]: panics unless a <= b <= len and both lie on character boundaries.
Slice(m, a, b) ==
    IF a <= b /\ b <= Len(m) /\ is_char_boundary(m, a) /\ is_char_boundary(m, b)
    THEN Ok(String(SubSeq(m, a + 1, b)))
    ELSE Panic

substring(message, start, len, checks) ==
    IF message.t = "String"
    THEN IF ~as_int(start).ok \/ ~as_int(len).ok THEN Err("ExpectedInt", <<>>)
         ELSE LET start_int == AsUsize(as_int(start).i)
                  len_int   == AsUsize(as_int(len).i)
                  m         == message.s
                  sum       == start_int + len_int
              IN  IF start_int < Len(m)
                  THEN IF sum >= Pow2(IntBits) /\ checks THEN Panic
                       ELSE LET wsum == sum % Pow2(IntBits)
                                end  == IF wsum > Len(m) THEN Len(m) ELSE wsum
                            IN  Slice(m, start_int, end)
                  ELSE Ok(String(<<>>))
    ELSE Ok(String(<<>>))

(***************************************************************************)
(* Text helpers of round_date_to_precision.                                *)
(***************************************************************************)
Digits == <<"0", "1", "2", "3", "4", "5", "6", "7", "8", "9">>

Upper == <<"A", "B", "C", "D", "E", "F", "G", "H", "I", "J", "K", "L", "M",
           "N", "O", "P", "Q", "R", "S", "T", "U", "V", "W", "X", "Y", "Z">>

Lower == <<"a", "b", "c", "d", "e", "f", "g", "h", "i", "j", "k", "l", "m",
           "n", "o", "p", "q", "r", "s", "t", "u", "v", "w", "x", "y", "z">>

IsDigit(c) == \E i \in 1..10 : Digits[i] = c

DigitVal(c) == (CHOOSE i \in 1..10 : Digits[i] = c) - 1

LowerChar(c) ==
    IF \E i \in 1..26 : Upper[i] = c
    THEN Lower[CHOOSE i \in 1..26 : Upper[i] = c]
    ELSE c

\* str::to_lowercase
to_lowercase(s) == [i \in 1..Len(s) |-> LowerChar(s[i])]

\* Position of the first '_' at or after pos, or 0.
RECURSIVE FindUnderscore(_, _)
FindUnderscore(s, pos) ==
    IF pos > Len(s) THEN 0
    ELSE IF s[pos] = "_" THEN pos
    ELSE FindUnderscore(s, pos + 1)

\* str::split('_'): at least one segment, also for the empty string.
RECURSIVE split(_)
split(s) ==
    LET u == FindUnderscore(s, 1)
    IN  IF u = 0 THEN <<s>>
        ELSE <<SubSeq(s, 1, u - 1)>> \o split(SubSeq(s, u + 1, Len(s)))

\* The segments concatenated without their separator.
RECURSIVE join_without_separator(_)
join_without_separator(parts) ==
    IF Len(parts) = 0 THEN <<>>
    ELSE parts[1] \o join_without_separator(Tail(parts))

\* [String]::join("_")
RECURSIVE join(_)
join(parts) ==
    IF Len(parts) = 0 THEN <<>>
    ELSE IF Len(parts) = 1 THEN parts[1]
    ELSE parts[1] \o <<"_">> \o join(Tail(parts))

\* n written in decimal, zero-padded to at least w digits.
RECURSIVE Pad(_, _)
Pad(n, w) ==
    IF n < 10 /\ w <= 1 THEN <<Digits[n + 1]>>
    ELSE Pad(n \div 10, w - 1) \o <<Digits[(n % 10) + 1]>>

(***************************************************************************)
(* NaiveDateTime::parse_from_str(_, "%Y.%m.%d %H:%M:%S")                   *)
(* A numeric field skips leading blanks and takes 1..width digits; the     *)
(* blank of the pattern matches any run of blanks; the whole text must be  *)
(* consumed and the fields must name a real date and time.                 *)
(***************************************************************************)
RECURSIVE SkipWs(_, _)
SkipWs(s, pos) ==
    IF pos <= Len(s) /\ s[pos] = " " THEN SkipWs(s, pos + 1) ELSE pos

\* Number of digits at pos, at most maxw.
RECURSIVE DigitRun(_, _, _)
DigitRun(s, pos, maxw) ==
    IF maxw > 0 /\ pos <= Len(s) /\ IsDigit(s[pos])
    THEN 1 + DigitRun(s, pos + 1, maxw - 1)
    ELSE 0

RECURSIVE NumVal(_, _, _)
NumVal(s, pos, k) ==
    IF k = 0 THEN 0
    ELSE 10 * NumVal(s, pos, k - 1) + DigitVal(s[pos + k - 1])

ParseNum(s, pos, maxw) ==
    LET p == SkipWs(s, pos)
        k == DigitRun(s, p, maxw)
    IN  [ok |-> k >= 1, v |-> NumVal(s, p, k), next |-> p + k]

ParseLit(s, pos, c) == [ok |-> pos <= Len(s) /\ s[pos] = c, next |-> pos + 1]

IsLeapYear(y) == (y % 4 = 0 /\ y % 100 # 0) \/ y % 400 = 0

DaysInMonth(y, m) ==
    IF m = 2 THEN (IF IsLeapYear(y) THEN 29 ELSE 28)
    ELSE IF m \in {4, 6, 9, 11} THEN 30 ELSE 31

\* A date-time: calendar fields, and whether the second is a leap second
\* (the text "60", kept as second 59 plus the leap mark).
DateTime(y, mo, d, h, mi, s, leap) ==
    [y |-> y, mo |-> mo, d |-> d, h |-> h, mi |-> mi, s |-> s, leap |-> leap]

parse_from_str(s) ==
    LET y  == ParseNum(s, 1, 4)
        l1 == ParseLit(s, y.next, ".")
        mo == ParseNum(s, l1.next, 2)
        l2 == ParseLit(s, mo.next, ".")
        d  == ParseNum(s, l2.next, 2)
        h  == ParseNum(s, SkipWs(s, d.next), 2)
        l3 == ParseLit(s, h.next, ":")
        mi == ParseNum(s, l3.next, 2)
        l4 == ParseLit(s, mi.next, ":")
        se == ParseNum(s, l4.next, 2)
        syntax == /\ y.ok /\ l1.ok /\ mo.ok /\ l2.ok /\ d.ok /\ h.ok
                  /\ l3.ok /\ mi.ok /\ l4.ok /\ se.ok
                  /\ se.next = Len(s) + 1
        range  == /\ mo.v \in 1..12
                  /\ d.v \in 1..DaysInMonth(y.v, mo.v)
                  /\ h.v \in 0..23 /\ mi.v \in 0..59 /\ se.v \in 0..60
    IN  IF syntax /\ range
        THEN [ok |-> TRUE,
              dt |-> DateTime(y.v, mo.v, d.v, h.v, mi.v,
                              IF se.v = 60 THEN 59 ELSE se.v, se.v = 60)]
        ELSE [ok |-> FALSE, dt |-> DateTime(0, 1, 1, 0, 0, 0, FALSE)]

\* DateTime::format("%Y.%m.%d %H:%M:%S")
format(dt) ==
    Pad(dt.y, 4) \o <<".">> \o Pad(dt.mo, 2) \o <<".">> \o Pad(dt.d, 2) \o <<" ">>
    \o Pad(dt.h, 2) \o <<":">> \o Pad(dt.mi, 2) \o <<":">>
    \o Pad(IF dt.leap THEN 60 ELSE dt.s, 2)

(***************************************************************************)
(* Calendar arithmetic: days since 1970-01-01 and back.                    *)
(***************************************************************************)
DaysFromCivil(y, m, d) ==
    LET yy  == IF m <= 2 THEN y - 1 ELSE y
        era == yy \div 400
        yoe == yy - era * 400
        mp  == (m + 9) % 12
        doy == (153 * mp + 2) \div 5 + d - 1
        doe == yoe * 365 + yoe \div 4 - yoe \div 100 + doy
    IN  era * 146097 + doe - 719468

CivilFromDays(z) ==
    LET zz  == z + 719468
        era == zz \div 146097
        doe == zz - era * 146097
        yoe == (doe - doe \div 1460 + doe \div 36524 - doe \div 146096) \div 365
        doy == doe - (365 * yoe + yoe \div 4 - yoe \div 100)
        mp  == (5 * doy + 2) \div 153
        d   == doy - (153 * mp + 2) \div 5 + 1
        m   == IF mp < 10 THEN mp + 3 ELSE mp - 9
        y   == yoe + era * 400
    IN  [y |-> IF m <= 2 THEN y + 1 ELSE y, mo |-> m, d |-> d]

\* The weekday counted from Monday instead of Sunday.
num_days_from_monday(dt) == (DaysFromCivil(dt.y, dt.mo, dt.d) + 3) % 7

\* Weekday::num_days_from_sunday; 1970-01-01 was a Thursday.
num_days_from_sunday(dt) == (DaysFromCivil(dt.y, dt.mo, dt.d) + 4) % 7

\* datetime.date().and_hms(h, mi, s)
and_hms(date, h, mi, s) == DateTime(date.y, date.mo, date.d, h, mi, s, FALSE)

\* datetime - Duration::days(k)
minus_days(dt, k) ==
    LET c == CivilFromDays(DaysFromCivil(dt.y, dt.mo, dt.d) - k)
    IN  DateTime(c.y, c.mo, c.d, dt.h, dt.mi, dt.s, dt.leap)

(***************************************************************************)
(* round_datetime_to_precision, round_date_to_precision                    *)
(***************************************************************************)
round_datetime_to_precision(datetime, precision) ==
    CASE precision = <<"m", "1">> ->
            [ok |-> TRUE, dt |-> and_hms(datetime, datetime.h, datetime.mi, 0)]
      [] precision = <<"m", "5">> ->
            [ok |-> TRUE, dt |-> and_hms(datetime, datetime.h, (datetime.mi \div 5) * 5, 0)]
      [] precision = <<"m", "1", "5">> ->
            [ok |-> TRUE, dt |-> and_hms(datetime, datetime.h, (datetime.mi \div 15) * 15, 0)]
      [] precision = <<"m", "3", "0">> ->
            [ok |-> TRUE, dt |-> and_hms(datetime, datetime.h, (datetime.mi \div 30) * 30, 0)]
      [] precision = <<"h", "1">> ->
            [ok |-> TRUE, dt |-> and_hms(datetime, datetime.h, 0, 0)]
      [] precision = <<"h", "4">> ->
            [ok |-> TRUE, dt |-> and_hms(datetime, (datetime.h \div 4) * 4, 0, 0)]
      [] precision = <<"d", "1">> ->
            [ok |-> TRUE, dt |-> and_hms(datetime, 0, 0, 0)]
      [] precision = <<"1", "w">> ->
            [ok |-> TRUE,
             dt |-> and_hms(minus_days(datetime, num_days_from_sunday(datetime)), 0, 0, 0)]
      [] precision = <<"1", "M">> ->
            [ok |-> TRUE, dt |-> and_hms([datetime EXCEPT !.d = 1], 0, 0, 0)]
      [] OTHER ->
            [ok |-> FALSE, dt |-> datetime]

round_date_to_precision(string, precision) ==
    IF string.t = "String" /\ precision.t = "String"
    THEN LET parts == split(string.s)
         IN  IF Len(parts) = 0 THEN Err("InvalidInputString", <<>>)
             ELSE LET datetime_str == parts[Len(parts)]
                      parsed       == parse_from_str(datetime_str)
                      lowered      == to_lowercase(precision.s)
                      rounded      == round_datetime_to_precision(parsed.dt, lowered)
                      joined       == join(SubSeq(parts, 1, Len(parts) - 1))
                      string1      == IF Len(joined) > 0 THEN joined \o <<"_">> ELSE joined
                  IN  IF ~parsed.ok THEN Err("InvalidDateFormat", <<>>)
                      ELSE IF ~rounded.ok THEN Err("CustomError", lowered)
                      ELSE Ok(String(string1 \o format(rounded.dt)))
    ELSE Err("InvalidArgumentType", <<>>)

(***************************************************************************)
(* Arguments the calls are made with.                                      *)
(***************************************************************************)
IntVals == {Int_(i) : i \in MinInt..MaxInt}

FloatVals == {Float(n, d) : n \in (-FloatMax)..FloatMax, d \in 1..2}

Numeric == IntVals \cup FloatVals

Messages == {<<>>, <<"a", "b", "c">>, <<"xC3", "xA9", "z">>}

AnyValue ==
    Numeric \cup {Empty, Boolean(TRUE), Boolean(FALSE), String(<<"a", "b", "c">>)}

\* A few values of every variant, for the five-argument function.
FewValues ==
    {Empty, Int_(MinInt), Int_(1), Float(-FloatMax, 1), Float(1, 2),
     Boolean(TRUE), String(<<"a", "b", "c">>)}

Selectors == {Boolean(TRUE), Boolean(FALSE), Empty, Int_(1)}

\* The text before the timestamp segment of a key.
KeyHeads ==
    {<<>>, <<"_">>, <<"_", "_">>, <<"B", "T", "C", "U", "S", "D", "_">>,
     <<"A", "_", "B", "_">>}

BaseYear == 2023

Years == BaseYear..(BaseYear + YearSpan)

Dates ==
    {dd \in [y : Years, mo : {1, 2, 3, 12}, d : {1, 13, 29}] :
        dd.d <= DaysInMonth(dd.y, dd.mo)}

Times == [h : {0, 10, 23}, mi : {5, 44}, s : {23}]

\* Timestamps in the library's own format.
PaddedStamps ==
    {format(DateTime(dd.y, dd.mo, dd.d, tt.h, tt.mi, tt.s, FALSE)) : dd \in Dates, tt \in Times}

\* Timestamps that parse although they are not in the output format, and texts
\* that do not parse.
OtherStamps ==
    {<<"2", "0", "2", "4", ".", "2", ".", "3", " ", "4", ":", "5", ":", "6">>,
     <<"2", "0", "2", "4", ".", "0", "3", ".", "0", "2", " ", " ",
       "0", "9", ":", "5", "9", ":", "6", "0">>,
     <<>>,
     <<"N", "o", "t", "A", "D", "a", "t", "e">>,
     <<"2", "0", "2", "4", ".", "0", "2", ".", "1", "3">>,
     <<"2", "0", "2", "4", ".", "1", "3", ".", "0", "1", " ",
       "1", "0", ":", "0", "5", ":", "2", "3">>,
     <<"2", "0", "2", "3", ".", "0", "2", ".", "2", "9", " ",
       "1", "0", ":", "0", "5", ":", "2", "3">>,
     <<"2", "0", "2", "4", ".", "0", "2", ".", "1", "3", " ",
       "2", "4", ":", "0", "5", ":", "2", "3">>,
     <<"2", "0", "2", "4", ".", "0", "2", ".", "1", "3", " ",
       "1", "0", ":", "0", "5", ":", "2", "3", "Z">>}

Keys == {String(hd \o ts) : hd \in KeyHeads, ts \in PaddedStamps \cup OtherStamps}

\* The nine precision tokens as the interface documents them.
Tokens ==
    {<<"m", "1">>, <<"m", "5">>, <<"m", "1", "5">>, <<"m", "3", "0">>, <<"h", "1">>,
     <<"h", "4">>, <<"d", "1">>, <<"1", "w">>, <<"1", "M">>}

UpperChar(c) ==
    IF \E i \in 1..26 : Lower[i] = c
    THEN Upper[CHOOSE i \in 1..26 : Lower[i] = c]
    ELSE c

\* Every token in lower case, in upper case and as documented.
TokenSpellings ==
    Tokens \cup {to_lowercase(tk) : tk \in Tokens}
           \cup {[i \in 1..Len(tk) |-> UpperChar(tk[i])] : tk \in Tokens}

OtherTokens ==
    {<<>>, <<"m", "6", "0">>, <<"M", "6", "0">>, <<"w", "1">>, <<"1", "d">>, <<"m">>}

Precisions == {String(tk) : tk \in TokenSpellings \cup OtherTokens}

(***************************************************************************)
(* The calls.  A behaviour is one evaluation: a call of a library function *)
(* from the idle state, possibly followed by a call that consumes the      *)
(* value it returned.  overflow_checks is the build's choice between       *)
(* panicking on integer overflow (debug) and wrapping (release).           *)
(***************************************************************************)
Init ==
    /\ fn = "none"
    /\ args = <<>>
    /\ result = NoCall
    /\ overflow_checks \in BOOLEAN

Call_negate ==
    /\ fn = "none"
    /\ \E v \in AnyValue :
        /\ fn' = "negate"
        /\ args' = <<v>>
        /\ result' = negate(v, overflow_checks)
        /\ UNCHANGED overflow_checks

Call_abs ==
    /\ fn = "none"
    /\ \E v \in AnyValue :
        /\ fn' = "abs"
        /\ args' = <<v>>
        /\ result' = abs(v, overflow_checks)
        /\ UNCHANGED overflow_checks

\* abs applied to the value the previous call returned: abs(negate(v)).
Call_abs_of_result ==
    /\ fn = "negate"
    /\ result.tag = "Ok"
    /\ fn' = "abs_negate"
    /\ args' = args
    /\ result' = abs(result.val, overflow_checks)
    /\ UNCHANGED overflow_checks

Call_safe_divide ==
    /\ fn = "none"
    /\ \E l \in AnyValue, r \in AnyValue :
        /\ fn' = "safe_divide"
        /\ args' = <<l, r>>
        /\ result' = safe_divide(l, r)
        /\ UNCHANGED overflow_checks

Call_clip_value_to_range ==
    /\ fn = "none"
    /\ \E v \in AnyValue, c \in AnyValue :
        /\ fn' = "clip_value_to_range"
        /\ args' = <<v, c>>
        /\ result' = clip_value_to_range(v, c)
        /\ UNCHANGED overflow_checks

Call_fallback_with_range_clipping ==
    /\ fn = "none"
    /\ \E p \in Selectors, ps \in FewValues, temp \in FewValues,
          c \in FewValues, e \in FewValues :
        /\ fn' = "fallback_with_range_clipping"
        /\ args' = <<p, ps, temp, c, e>>
        /\ result' = fallback_with_range_clipping(p, ps, temp, c, e)
        /\ UNCHANGED overflow_checks

Call_substring ==
    /\ fn = "none"
    /\ \E m \in {String(x) : x \in Messages} \cup {Empty, Int_(1)},
          st \in IntVals \cup {Empty}, ln \in IntVals \cup {Empty} :
        /\ fn' = "substring"
        /\ args' = <<m, st, ln>>
        /\ result' = substring(m, st, ln, overflow_checks)
        /\ UNCHANGED overflow_checks

Call_round_date_to_precision ==
    /\ fn = "none"
    /\ \E k \in Keys \cup {Empty, Int_(1)}, p \in Precisions \cup {Empty} :
        /\ fn' = "round_date_to_precision"
        /\ args' = <<k, p>>
        /\ result' = round_date_to_precision(k, p)
        /\ UNCHANGED overflow_checks

\* The key a rounding returned is rounded again at the same precision.
Call_round_again ==
    /\ fn = "round_date_to_precision"
    /\ result.tag = "Ok"
    /\ fn' = "round_again"
    /\ args' = args
    /\ result' = round_date_to_precision(result.val, args[2])
    /\ UNCHANGED overflow_checks

NextArith ==
    \/ Call_negate
    \/ Call_abs
    \/ Call_abs_of_result
    \/ Call_safe_divide
    \/ Call_clip_value_to_range
    \/ Call_fallback_with_range_clipping

NextString == Call_substring

NextRound ==
    \/ Call_round_date_to_precision
    \/ Call_round_again

Next == NextArith \/ NextString \/ NextRound

Spec == Init /\ [][Next]_vars

SpecArith == Init /\ [][NextArith]_vars

SpecString == Init /\ [][NextString]_vars

SpecRound == Init /\ [][NextRound]_vars

(***************************************************************************)
(* Vocabulary of the properties.                                           *)
(***************************************************************************)
IsString(v) == v.t = "String"

IsNumeric(v) == v.t \in {"Int", "Float"}

LastSegment(s) == split(s)[Len(split(s))]

\* A key whose last underscore-delimited segment parses as a timestamp.
ValidKey(k) == IsString(k) /\ parse_from_str(LastSegment(k.s)).ok

\* p spells, in some letter case, the documented token tk.
Spells(p, tk) == IsString(p) /\ to_lowercase(p.s) = to_lowercase(tk)

ValidPrecision(p) == \E tk \in Tokens : Spells(p, tk)

\* Position of the last '_' of s, or 0.
RECURSIVE LastUnderscore(_, _)
LastUnderscore(s, pos) ==
    IF pos = 0 THEN 0
    ELSE IF s[pos] = "_" THEN pos
    ELSE LastUnderscore(s, pos - 1)

HasUnderscore(s) == LastUnderscore(s, Len(s)) > 0

\* The text before the last '_'.
PrefixOf(s) == SubSeq(s, 1, LastUnderscore(s, Len(s)) - 1)

InRound == fn = "round_date_to_precision"

\* Seconds from the start of day of a date-time, and whole days since the epoch.
SecondOfDay(dt) == dt.h * 3600 + dt.mi * 60 + dt.s

DayNumber(dt) == DaysFromCivil(dt.y, dt.mo, dt.d)

\* 1970-01-04, day 3 of the epoch, was a Sunday.
IsSunday(dt) == DayNumber(dt) % 7 = 3

\* Length in seconds of the bucket of a token, and whether a date-time lies on
\* a boundary of it.
BucketSeconds(tk) ==
    CASE tk = <<"m", "1">> -> 60
      [] tk = <<"m", "5">> -> 300
      [] tk = <<"m", "1", "5">> -> 900
      [] tk = <<"m", "3", "0">> -> 1800
      [] tk = <<"h", "1">> -> 3600
      [] tk = <<"h", "4">> -> 14400
      [] tk = <<"d", "1">> -> 86400
      [] tk = <<"1", "w">> -> 604800

OnBoundary(dt, tk) ==
    /\ dt.s = 0 /\ ~dt.leap
    /\ CASE tk = <<"m", "1">> -> TRUE
         [] tk = <<"m", "5">> -> dt.mi % 5 = 0
         [] tk = <<"m", "1", "5">> -> dt.mi % 15 = 0
         [] tk = <<"m", "3", "0">> -> dt.mi % 30 = 0
         [] tk = <<"h", "1">> -> dt.mi = 0
         [] tk = <<"h", "4">> -> dt.mi = 0 /\ dt.h % 4 = 0
         [] tk = <<"d", "1">> -> dt.mi = 0 /\ dt.h = 0
         [] tk = <<"1", "w">> -> dt.mi = 0 /\ dt.h = 0 /\ IsSunday(dt)

FloorTokens == Tokens \ {<<"1", "M">>}

(***************************************************************************)
(* C1: rounding is idempotent: for every valid key and every valid         *)
(* precision the call returns Ok, and rounding the returned key again at   *)
(* the same precision returns Ok with the same string.                     *)
(***************************************************************************)
C1_Idempotent ==
    /\ (InRound /\ ValidKey(args[1]) /\ ValidPrecision(args[2]))
          => /\ result.tag = "Ok"
             /\ round_date_to_precision(result.val, args[2]) = result
    /\ fn = "round_again" => result = round_date_to_precision(args[1], args[2])

(***************************************************************************)
(* C2: given a valid key, each of the nine tokens in any letter case is    *)
(* accepted, and every other token is rejected with a CustomError naming   *)
(* the token.                                                              *)
(***************************************************************************)
C2_NineTokens ==
    (InRound /\ ValidKey(args[1]) /\ IsString(args[2]))
        => IF ValidPrecision(args[2])
           THEN result.tag = "Ok"
           ELSE /\ result.tag = "Err"
                /\ result.err = "CustomError"
                /\ to_lowercase(result.msg) = to_lowercase(args[2].s)

C4_PrefixVerbatim ==
    (InRound /\ result.tag = "Ok")
        => IF HasUnderscore(args[1].s)
           THEN /\ HasUnderscore(result.val.s)
                /\ PrefixOf(result.val.s) = PrefixOf(args[1].s)
           ELSE ~HasUnderscore(result.val.s)

(***************************************************************************)
(* C4 amended: a non-empty text before the last underscore of the input is *)
(* the text before the last underscore of the output; an input whose       *)
(* prefix is empty (its only underscore leads the key) or that has no      *)
(* underscore gives an output without underscore.                          *)
(***************************************************************************)
C4_PrefixNonEmpty ==
    (InRound /\ result.tag = "Ok")
        => IF HasUnderscore(args[1].s) /\ PrefixOf(args[1].s) # <<>>
           THEN /\ HasUnderscore(result.val.s)
                /\ PrefixOf(result.val.s) = PrefixOf(args[1].s)
           ELSE ~HasUnderscore(result.val.s)

\* A key with the prefix "A_B" has been rounded.
C4_Witness ==
    /\ InRound
    /\ result.tag = "Ok"
    /\ PrefixOf(args[1].s) = <<"A", "_", "B">>
    /\ PrefixOf(result.val.s) = <<"A", "_", "B">>

(***************************************************************************)
(* C5: on two String arguments, a key with no segment at all returns       *)
(* InvalidInputString, and a key whose last segment is present but does    *)
(* not parse returns InvalidDateFormat.                                    *)
(***************************************************************************)
C5_MalformedKeys ==
    (InRound /\ IsString(args[1]) /\ IsString(args[2]))
        => /\ args[1].s = <<>> => result = Err("InvalidInputString", <<>>)
           /\ (args[1].s # <<>> /\ ~ValidKey(args[1]))
                 => result = Err("InvalidDateFormat", <<>>)

(***************************************************************************)
(* C6: substring never panics and never errs on a String and two Ints: it  *)
(* returns the bytes [start, min(start+len, length)) when start < length   *)
(* (start and len cast to unsigned) and "" otherwise, also for a message   *)
(* that is not a String.                                                   *)
(***************************************************************************)
C6_SubstringTotal ==
    (fn = "substring" /\ args[2].t = "Int" /\ args[3].t = "Int")
        => LET m  == args[1].s
               st == AsUsize(args[2].n)
               ln == AsUsize(args[3].n)
               en == IF st + ln > Len(m) THEN Len(m) ELSE st + ln
           IN  IF IsString(args[1]) /\ st < Len(m)
               THEN result = Ok(String(SubSeq(m, st + 1, en)))
               ELSE result = Ok(String(<<>>))

(***************************************************************************)
(* C7: clip_value_to_range clamps the value into [-|bound|, |bound|] for   *)
(* every numeric value and bound, whatever the sign of the bound.          *)
(***************************************************************************)
C7_SymmetricClamp ==
    (fn = "clip_value_to_range" /\ IsNumeric(args[1]) /\ IsNumeric(args[2]))
        => LET v  == as_float_or_none(args[1]).v
               b  == as_float_or_none(args[2]).v
               hi == Float(Abs(b.n), b.d)
               lo == Float(-Abs(b.n), b.d)
           IN  result = Ok(IF FGt(v, hi) THEN hi ELSE IF FLt(v, lo) THEN lo ELSE v)

(***************************************************************************)
(* C8: safe_divide is total on numeric pairs: a zero divisor gives         *)
(* Ok(Empty), and every Int pair with a non-zero divisor gives Ok(Int) of  *)
(* the truncating quotient, the minimum integer divided by -1 included.    *)
(***************************************************************************)
C8_DivideTotal ==
    (fn = "safe_divide" /\ IsNumeric(args[1]) /\ IsNumeric(args[2]))
        => /\ args[2].n = 0 => result = Ok(Empty)
           /\ (args[1].t = "Int" /\ args[2].t = "Int" /\ args[2].n # 0)
                 => /\ result.tag = "Ok"
                    /\ result.val.t = "Int"
                    /\ Abs(result.val.n * args[2].n) <= Abs(args[1].n)
                    /\ Abs(args[1].n - result.val.n * args[2].n) < Abs(args[2].n)

(***************************************************************************)
(* C9: for every numeric v, negate(v) and abs(v) return Ok, and            *)
(* abs(negate(v)) equals abs(v) and is not negative.                       *)
(***************************************************************************)
C9_AbsNegate ==
    /\ (fn = "negate" /\ IsNumeric(args[1])) => result.tag = "Ok"
    /\ (fn = "abs" /\ IsNumeric(args[1])) => result.tag = "Ok"
    /\ (fn = "abs_negate" /\ IsNumeric(args[1]))
          => /\ result.tag = "Ok"
             /\ result = abs(args[1], overflow_checks)
             /\ result.val.n >= 0

(***************************************************************************)
(* C10: fallback_with_range_clipping with a selector of true returns the   *)
(* clipped primary, or empty_default unchanged when the primary is Empty;  *)
(* with a selector of false or Empty it returns the clipped secondary, or  *)
(* Float(0.0) when the secondary is Empty; the operand that is not         *)
(* selected does not affect the result.                                    *)
(***************************************************************************)
C10_AsymmetricFallback ==
    (fn = "fallback_with_range_clipping" /\ args[1] \in {Boolean(TRUE), Boolean(FALSE), Empty})
        => IF args[1] = Boolean(TRUE)
           THEN /\ result = IF args[2] = Empty THEN Ok(args[5])
                            ELSE clip_value_to_range(args[2], args[4])
                /\ \A x \in FewValues :
                      fallback_with_range_clipping(args[1], args[2], x, args[4], args[5])
                          = result
           ELSE /\ result = IF args[3] = Empty THEN Ok(Float(0, 1))
                            ELSE clip_value_to_range(args[3], args[4])
                /\ \A x \in FewValues, y \in FewValues :
                      fallback_with_range_clipping(args[1], x, args[3], args[4], y)
                          = result

\* Selector true, primary Empty: the String default comes back as it is.
C10_Witness ==
    /\ fn = "fallback_with_range_clipping"
    /\ args[1] = Boolean(TRUE)
    /\ args[2] = Empty
    /\ args[5] = String(<<"a", "b", "c">>)
    /\ result = Ok(String(<<"a", "b", "c">>))

====
